---------------------------- MODULE Spec2Model ----------------------------
(***************************************************************************)
(* DVCLiveLogger (src/src/dvclive/lightning.py): the Lightning logger that *)
(* forwards hyperparameters, metrics and checkpoints to a dvclive Live     *)
(* tracking session.                                                       *)
(*                                                                         *)
(* The adapter is driven by synchronous callbacks, so every handler is one *)
(* atomic action.  A handler is written as a function from a "world"       *)
(* record (the adapter fields and the session it can reach) to the world   *)
(* it leaves behind; the calls that reach the real tracking session during *)
(* the handler are appended, in program order, to the world's `calls`.     *)
(***************************************************************************)
EXTENDS Integers, Sequences, FiniteSets, TLC

VARIABLES
    rank,                 \* rank_zero_only.rank of this process
    _log_model,           \* self._log_model: "False" | "True" | "all"
    report,               \* self._live_init["report"]
    _experiment,          \* self._experiment: "None" | "supplied" | "created"
    _checkpoint_callback, \* self._checkpoint_callback: NoCallback or a ModelCheckpoint
    live,                 \* the real tracking session: step, _latest_studio_step
    nLive,                \* number of Live(...) constructions made by the adapter
    calls,                \* calls that reached the real session in the last operation
    forwarded,            \* mapping handed to log_params in the last operation
    hparams,              \* params argument of log_hyperparams (last, or pending)
    lastOp,               \* the last operation and its arguments
    groupStep,            \* step of the latest metric recorded since the last advance, or -1
    groupArg,             \* step argument of the log_metrics call that recorded it, or -1
    stack,                \* call-stack snapshot given to the decider (SpecDecider)
    decision              \* <<>> before the decider ran, <<result>> after

vars == <<rank, _log_model, report, _experiment, _checkpoint_callback, live,
          nLive, calls, forwarded, hparams, lastOp, groupStep, groupArg, stack, decision>>

---------------------------------------------------------------------------
(* Bounds of the model.                                                    *)
MaxRank == 1
MaxStep == 2
MaxStack == 3

Ranks == 0..MaxRank
Steps == 0..MaxStep

---------------------------------------------------------------------------
(* The step-advance decider.                                               *)

Finalizers ==
    {"update_train_step_metrics", "update_train_epoch_metrics", "log_eval_end_metrics"}

\* Frame names a snapshot may hold: the three finalizers, names that contain
\* one of them as a substring, and unrelated frames.
FrameNames ==
    Finalizers \cup {"main", "log_metrics", "update_eval_step_metrics",
                     "log_eval_end_metrics_hook", "_update_train_step_metrics"}

RECURSIVE AnyFrame(_, _)
AnyFrame(stk, names) ==
    IF stk = <<>> THEN FALSE
    ELSE Head(stk) \in names \/ AnyFrame(Tail(stk), names)

\* The decider with the evaluation-end name missing from its tuple.
should_call_next_step_no_eval(stk) ==
    AnyFrame(stk, {"update_train_step_metrics", "update_train_epoch_metrics"})

_should_call_next_step(stk) ==
    AnyFrame(stk, {"update_train_step_metrics",
                   "update_train_epoch_metrics",
                   "log_eval_end_metrics"})

---------------------------------------------------------------------------
(* The tracking session (dvclive.Live) as the adapter uses it.             *)

NoName == [sep |-> "", parts |-> <<>>]
Call(op, name, path, tag, n) ==
    [op |-> op, name |-> name, path |-> path, tag |-> tag, n |-> n, val |-> 0]

NewLive == [step |-> 0, _latest_studio_step |-> -1]

NoParams == [kind |-> "unset", items |-> <<>>]

Live_init(w) ==
    [w EXCEPT !.exp = "created", !.live = NewLive, !.nLive = @ + 1,
              !.calls = Append(@, Call("Live", NoName, "", "", 0))]

Live_set_step(w, v) ==
    [w EXCEPT !.live.step = v,
              !.calls = Append(@, Call("step", NoName, "", "", v))]

\* log_metric(name, val): the value is recorded under the current step.
Live_log_metric(w, name, val) ==
    [w EXCEPT !.calls = Append(@, [Call("log_metric", name, "", "", w.live.step)
                                      EXCEPT !.val = val]),
              !.groupStep = w.live.step]

\* next_step(): the step's data is reported (sent = TRUE: the streaming backend
\* took it and remembers the step) and the counter advances by one.
Live_next_step(w, sent) ==
    [w EXCEPT !.live.step = @ + 1,
              !.live._latest_studio_step = IF sent THEN w.live.step ELSE @,
              !.calls = Append(@, Call("next_step", NoName, "", "", w.live.step)),
              !.groupStep = -1]

Live_log_artifact(w, path, tag) ==
    [w EXCEPT !.calls = Append(@, Call("log_artifact", NoName, path, tag, 0))]

Live_log_params(w, params) ==
    [w EXCEPT !.calls = Append(@, Call("log_params", NoName, "", "", 0)),
              !.forwarded = [kind |-> "dict", items |-> params]]

Live_end(w) ==
    [w EXCEPT !.calls = Append(@, Call("end", NoName, "", "", 0))]

---------------------------------------------------------------------------
(* The experiment accessor.                                                *)

\* The accessor without the rank_zero_experiment guard.
experiment_unguarded(rk, w) ==
    IF w.exp # "None" THEN [w EXCEPT !.target = "real"]
    ELSE [Live_init(w) EXCEPT !.target = "real"]

\* The accessor without the cached-instance test: a Live per access.
experiment_uncached(rk, w) ==
    IF rk > 0 THEN [w EXCEPT !.target = "dummy"]
    ELSE [Live_init(w) EXCEPT !.target = "real"]

\* self.experiment: on a rank above zero rank_zero_experiment answers with a
\* dummy whose methods do nothing; on rank zero the stored session, created
\* on first access.  `target` is what the access returned.
experiment(rk, w) ==
    IF rk > 0 THEN [w EXCEPT !.target = "dummy"]
    ELSE IF w.exp # "None" THEN [w EXCEPT !.target = "real"]
    ELSE [Live_init(w) EXCEPT !.target = "real"]

---------------------------------------------------------------------------
(* log_metrics.                                                            *)

\* dvclive.utils.standardize_metric_name: a leading segment that names the
\* adapter module is dropped and the segments are joined by "/".
standardize_metric_name(name, framework) ==
    [sep |-> "/",
     parts |-> IF name.parts # <<>> /\ Head(name.parts) = framework
               THEN Tail(name.parts) ELSE name.parts]

ModuleName == "dvclive.lightning"

\* val.cpu().detach().item(): the single element of a tensor.
item(val) == val.data[1]

\* Line 113 with the assignment left out.
set_step_skipped(rk, w, step) == experiment(rk, w)

\* Line 113 assigning one less than the framework's step.
set_step_one_less(rk, w, step) ==
    LET w1 == experiment(rk, w)
    IN  IF w1.target = "real" THEN Live_set_step(w1, step - 1) ELSE w1

\* self.experiment.step = step
set_step(rk, w, step) ==
    LET w1 == experiment(rk, w)
    IN  IF w1.target = "real" THEN Live_set_step(w1, step) ELSE w1

\* for metric_name, metric_val in metrics.items(): ... log_metric(name, val)
RECURSIVE forward_metrics(_, _, _)
forward_metrics(rk, w, metrics) ==
    IF metrics = <<>> THEN w
    ELSE LET m    == Head(metrics)
             val  == IF m.val.tensor THEN item(m.val) ELSE m.val.x
             name == standardize_metric_name(m.name, ModuleName)
             w1   == experiment(rk, w)
             w2   == IF w1.target = "real" THEN Live_log_metric(w1, name, val) ELSE w1
         IN  forward_metrics(rk, w2, Tail(metrics))

\* self.experiment._latest_studio_step -= 1
decrement_latest(rk, w) ==
    LET w1 == experiment(rk, w)
    IN  IF w1.target = "real"
        THEN [w1 EXCEPT !.live._latest_studio_step = @ - 1,
                        !.calls = Append(@, Call("_latest_studio_step", NoName, "", "",
                                                 w1.live._latest_studio_step - 1))]
        ELSE w1

\* self.experiment.next_step()
call_next_step(rk, w, sent) ==
    LET w1 == experiment(rk, w)
    IN  IF w1.target = "real" THEN Live_next_step(w1, sent) ELSE w1

\* step == self.experiment._latest_studio_step
step_is_latest(rk, w, step) ==
    LET w1 == experiment(rk, w)
    IN  w1.target = "real" /\ step = w1.live._latest_studio_step

\* Lines 120-126 with next_step() called whatever the decider says.
advance_always(rk, w, step, stk, sent) ==
    LET w1 == IF step_is_latest(rk, w, step) THEN decrement_latest(rk, w) ELSE w
    IN  call_next_step(rk, w1, sent)

\* Lines 120-126 with the decrement placed after next_step().
advance_decrement_last(rk, w, step, stk, sent) ==
    IF _should_call_next_step(stk)
    THEN LET w1 == call_next_step(rk, w, sent)
         IN  IF step_is_latest(rk, w, step) THEN decrement_latest(rk, w1) ELSE w1
    ELSE w

\* if _should_call_next_step(): [if step == latest: latest -= 1]; next_step()
advance(rk, w, step, stk, sent) ==
    IF _should_call_next_step(stk)
    THEN LET w1 == IF step_is_latest(rk, w, step) THEN decrement_latest(rk, w) ELSE w
         IN  call_next_step(rk, w1, sent)
    ELSE w

\* @rank_zero_only def log_metrics(self, metrics, step)
log_metrics(rk, w, metrics, step, stk, sent) ==
    IF rk = 0
    THEN advance(rk, forward_metrics(rk, set_step(rk, w, step), metrics), step, stk, sent)
    ELSE w

---------------------------------------------------------------------------
(* log_hyperparams.                                                        *)

NoLeaf == [kind |-> "none", n |-> 0]
Leaf(kind, n) == [isDict |-> FALSE, leaf |-> [kind |-> kind, n |-> n], items |-> <<>>]
DictNode(d) == [isDict |-> TRUE, leaf |-> NoLeaf, items |-> d]

\* lightning's _convert_params: a Namespace becomes its dict, None the empty dict.
_convert_params(params) ==
    IF params.kind = "None" THEN <<>> ELSE params.items

\* lightning's _sanitize_callable_params: a top-level callable value is
\* replaced by its name; keys are kept.
_sanitize_callable_params(params) ==
    [k \in DOMAIN params |->
        IF ~params[k].isDict /\ params[k].leaf.kind = "fn"
        THEN Leaf("str", params[k].leaf.n) ELSE params[k]]

\* lightning's _sanitize_params: bool, int, float and str values are kept,
\* any other value becomes its str(); keys are kept.
_sanitize_params(params) ==
    [k \in DOMAIN params |->
        IF params[k].leaf.kind \in {"int", "str"}
        THEN params[k] ELSE Leaf("str", params[k].leaf.n)]

\* {**d1, **d2}
Merge(d1, d2) ==
    [k \in DOMAIN d1 \cup DOMAIN d2 |-> IF k \in DOMAIN d2 THEN d2[k] ELSE d1[k]]

\* sanitize_dict merging the sanitized nested entries into the level above.
RECURSIVE sanitize_dict_flat(_)
sanitize_dict_flat(params) ==
    LET dictKeys == {k \in DOMAIN params : params[k].isDict}
        RECURSIVE MergeAll(_, _)
        MergeAll(ks, acc) ==
            IF ks = {} THEN acc
            ELSE LET k == CHOOSE x \in ks : TRUE
                 IN  MergeAll(ks \ {k}, Merge(acc, sanitize_dict_flat(params[k].items)))
        non_dict_values == _sanitize_params([k \in DOMAIN params \ dictKeys |-> params[k]])
    IN  Merge(MergeAll(dictKeys, <<>>), non_dict_values)

RECURSIVE sanitize_dict(_)
sanitize_dict(params) ==
    LET dictKeys == {k \in DOMAIN params : params[k].isDict}
        dict_values == [k \in dictKeys |-> DictNode(sanitize_dict(params[k].items))]
        non_dict_values == _sanitize_params([k \in DOMAIN params \ dictKeys |-> params[k]])
    IN  Merge(dict_values, non_dict_values)

\* @rank_zero_only def log_hyperparams(self, params)
log_hyperparams(rk, w, params) ==
    IF rk = 0
    THEN LET p  == sanitize_dict(_sanitize_callable_params(_convert_params(params)))
             w1 == experiment(rk, w)
         IN  IF w1.target = "real" THEN Live_log_params(w1, p) ELSE w1
    ELSE w

---------------------------------------------------------------------------
(* after_save_checkpoint and finalize.                                     *)

NoCallback == [dirpath |-> "", best_model_path |-> "", save_top_k |-> 0, set |-> FALSE]
ModelCheckpoint(k) ==
    [dirpath |-> "ckpt_dir", best_model_path |-> "ckpt_dir/best.ckpt",
     save_top_k |-> k, set |-> TRUE]
Callbacks == {ModelCheckpoint(1), ModelCheckpoint(-1)}

\* self.experiment.log_artifact(path, ...): the accessor is evaluated first,
\* then the arguments; reading an attribute of a None callback raises.
log_artifact_of(rk, w, attr, tag) ==
    LET w1 == experiment(rk, w)
    IN  IF ~w1.cb.set THEN [w1 EXCEPT !.raised = TRUE]
        ELSE IF w1.target = "real" THEN Live_log_artifact(w1, w1.cb[attr], tag)
        ELSE w1

\* def after_save_checkpoint(self, checkpoint_callback)  (no rank guard)
after_save_checkpoint(rk, w, checkpoint_callback) ==
    LET w1 == [w EXCEPT !.cb = checkpoint_callback]
    IN  IF w1.log_model = "all"
           \/ (w1.log_model = "True" /\ checkpoint_callback.save_top_k = -1)
        THEN log_artifact_of(rk, w1, "dirpath", "")
        ELSE w1

\* self.experiment.end()
call_end(rk, w) ==
    LET w1 == experiment(rk, w)
    IN  IF w1.target = "real" THEN Live_end(w1) ELSE w1

\* Lines 139-140 of finalize: the checkpoint directory, when log_model is True.
finalize_checkpoints(rk, w) ==
    IF w.log_model = "True" THEN log_artifact_of(rk, w, "dirpath", "") ELSE w

\* Lines 142-146 of finalize: the best model, when log_model is True or "all";
\* best_model_path is read before the accessor is evaluated.
finalize_best(rk, w) ==
    IF w.log_model \in {"True", "all"}
    THEN IF ~w.cb.set THEN [w EXCEPT !.raised = TRUE]
         ELSE log_artifact_of(rk, w, "best_model_path", "best")
    ELSE w

\* finalize with the checkpoint directory logged under "all" as well.
finalize_dir_under_all(rk, w) ==
    LET w0 == IF w.log_model \in {"True", "all"}
              THEN log_artifact_of(rk, w, "dirpath", "") ELSE w
        w1 == IF w0.raised THEN w0 ELSE finalize_best(rk, w0)
    IN  IF rk # 0 THEN w ELSE IF w1.raised THEN w1 ELSE call_end(rk, w1)

\* finalize without the closing end().
finalize_no_end(rk, w) ==
    LET w0 == finalize_checkpoints(rk, w)
    IN  IF rk # 0 THEN w ELSE IF w0.raised THEN w0 ELSE finalize_best(rk, w0)

\* @rank_zero_only def finalize(self, status)
finalize(rk, w) ==
    IF rk = 0
    THEN LET w1 == finalize_checkpoints(rk, w)
             w2 == IF w1.raised THEN w1 ELSE finalize_best(rk, w1)
         IN  IF w2.raised THEN w2 ELSE call_end(rk, w2)
    ELSE w

---------------------------------------------------------------------------
(* The constructor.                                                        *)

\* DVCLiveLogger.__init__: a session created eagerly only for report="notebook".
\* While _experiment is "None" there is no session and `live` is a placeholder.
Construct(rk, log_model, supplied, rep) ==
    LET w0 == [exp |-> IF supplied THEN "supplied" ELSE "None",
               live |-> NewLive, nLive |-> 0, calls |-> <<>>,
               forwarded |-> NoParams, groupStep |-> -1, target |-> "none",
               raised |-> FALSE, cb |-> NoCallback, log_model |-> log_model]
    IN  IF rep = "notebook" THEN experiment(rk, w0) ELSE w0

---------------------------------------------------------------------------
(* Inputs.                                                                 *)

Tensor(x) == [tensor |-> TRUE, x |-> 0, data |-> <<x>>]
Float(x) == [tensor |-> FALSE, x |-> x, data |-> <<>>]
TrainLoss == [name |-> [sep |-> "_", parts |-> <<"train", "loss">>], val |-> Tensor(5)]
ValAcc == [name |-> [sep |-> "_", parts |-> <<ModuleName, "val", "acc">>], val |-> Float(7)]
MetricDicts == {<<>>, <<TrainLoss, ValAcc>>}

\* Where the framework or user code calls log_metrics from.
CallSites == {<<"main", f, "log_metrics">> : f \in Finalizers \cup {"update_eval_step_metrics"}}
              \cup {<<"main", "log_metrics">>}

RECURSIVE SeqsUpTo(_, _)
SeqsUpTo(S, n) ==
    IF n = 0 THEN {<<>>}
    ELSE LET shorter == SeqsUpTo(S, n - 1)
         IN  shorter \cup {Append(q, x) : q \in shorter, x \in S}

Stacks == SeqsUpTo(FrameNames, MaxStack)

DictsOver(keys, values) == UNION {[ks -> values] : ks \in SUBSET keys}
LeafValues == {Leaf("int", 1), Leaf("int", 2), Leaf("obj", 1), Leaf("fn", 1)}
InnerDicts == DictsOver({"c"}, LeafValues)
MidDicts == DictsOver({"b", "c"}, LeafValues \cup {DictNode(d) : d \in InnerDicts})
TopDicts == DictsOver({"a", "c"}, LeafValues \cup {DictNode(d) : d \in MidDicts})
ParamInputs ==
    {[kind |-> "None", items |-> <<>>]}
    \cup {[kind |-> k, items |-> d] : k \in {"dict", "Namespace"}, d \in TopDicts}

\* {"a": {"b": 1}, "c": 2}
ExampleParams ==
    [kind |-> "dict",
     items |-> ("a" :> DictNode("b" :> Leaf("int", 1))) @@ ("c" :> Leaf("int", 2))]
MainParams == {ExampleParams, [kind |-> "None", items |-> <<>>]}

---------------------------------------------------------------------------
(* The state machine.                                                      *)

Op(name) == [op |-> name, step |-> 0, metrics |-> <<>>, stack |-> <<>>, raised |-> FALSE]

World ==
    [exp |-> _experiment, live |-> live, nLive |-> nLive, calls |-> <<>>,
     forwarded |-> NoParams, groupStep |-> groupStep, target |-> "none",
     raised |-> FALSE, cb |-> _checkpoint_callback, log_model |-> _log_model]

Has(cs, op) == \E i \in 1..Len(cs) : cs[i].op = op

Commit(w, op, params) ==
    /\ _experiment' = w.exp
    /\ live' = w.live
    /\ nLive' = w.nLive
    /\ calls' = w.calls
    /\ forwarded' = w.forwarded
    /\ groupStep' = w.groupStep
    /\ groupArg' = IF Has(w.calls, "next_step") THEN -1
                   ELSE IF Has(w.calls, "log_metric") THEN op.step
                   ELSE groupArg
    /\ _checkpoint_callback' = w.cb
    /\ hparams' = params
    /\ lastOp' = [op EXCEPT !.raised = w.raised]
    /\ UNCHANGED <<rank, _log_model, report, stack, decision>>

InitAdapter(rk, lm, supplied, rep) ==
    LET w == Construct(rk, lm, supplied, rep)
    IN  /\ rank = rk
        /\ _log_model = lm
        /\ report = rep
        /\ _experiment = w.exp
        /\ _checkpoint_callback = w.cb
        /\ live = w.live
        /\ nLive = w.nLive
        /\ calls = w.calls
        /\ forwarded = NoParams
        /\ lastOp = Op("__init__")
        /\ groupStep = -1
        /\ groupArg = -1

Init ==
    /\ \E rk \in Ranks, lm \in {"False", "True", "all"}, supplied \in BOOLEAN,
          rep \in {"auto", "notebook"} : InitAdapter(rk, lm, supplied, rep)
    /\ hparams = NoParams
    /\ stack = <<>>
    /\ decision = <<>>

LogHyperparams ==
    \E params \in MainParams :
        Commit(log_hyperparams(rank, World, params), Op("log_hyperparams"), params)

\* `sent` is the streaming backend's answer to next_step(); it is drawn only
\* for the call sites from which next_step() is reached.
LogMetrics ==
    \E metrics \in MetricDicts, step \in Steps, stk \in CallSites :
      \E sent \in IF _should_call_next_step(stk) THEN BOOLEAN ELSE {FALSE} :
        Commit(log_metrics(rank, World, metrics, step, stk, sent),
               [Op("log_metrics") EXCEPT !.step = step, !.metrics = metrics, !.stack = stk],
               NoParams)

AfterSaveCheckpoint ==
    \E cb \in Callbacks :
        Commit(after_save_checkpoint(rank, World, cb), Op("after_save_checkpoint"), NoParams)

Finalize ==
    Commit(finalize(rank, World), Op("finalize"), NoParams)

Next == LogHyperparams \/ LogMetrics \/ AfterSaveCheckpoint \/ Finalize

Spec == Init /\ [][Next]_vars

---------------------------------------------------------------------------
(* The decider applied to every snapshot up to MaxStack frames.            *)

InitDecider ==
    /\ InitAdapter(0, "False", FALSE, "auto")
    /\ hparams = NoParams
    /\ stack \in Stacks
    /\ decision = <<>>

Decide ==
    /\ decision = <<>>
    /\ decision' = <<_should_call_next_step(stack)>>
    /\ UNCHANGED <<rank, _log_model, report, _experiment, _checkpoint_callback, live,
                   nLive, calls, forwarded, hparams, lastOp, groupStep, groupArg, stack>>

NextDecider == Decide

SpecDecider == InitDecider /\ [][NextDecider]_vars

---------------------------------------------------------------------------
(* log_hyperparams applied to every parameter mapping of ParamInputs.      *)

InitParams ==
    /\ \E supplied \in BOOLEAN : InitAdapter(0, "False", supplied, "auto")
    /\ \/ hparams = ExampleParams
       \/ hparams \in ParamInputs
    /\ stack = <<>>
    /\ decision = <<>>

LogGivenHyperparams ==
    /\ lastOp.op = "__init__"
    /\ Commit(log_hyperparams(rank, World, hparams), Op("log_hyperparams"), hparams)

NextParams == LogGivenHyperparams

SpecParams == InitParams /\ [][NextParams]_vars

---------------------------------------------------------------------------
(* Observations used by the properties.                                    *)

Count(cs, op) == Cardinality({i \in 1..Len(cs) : cs[i].op = op})
Where(cs, op) == {i \in 1..Len(cs) : cs[i].op = op}
OnStack(stk, names) == \E i \in 1..Len(stk) : stk[i] \in names
Artifacts(cs) == SelectSeq(cs, LAMBDA c : c.op = "log_artifact")
LoggedMetrics == rank = 0 /\ lastOp.op = "log_metrics"

---------------------------------------------------------------------------
\* C1: for every call-stack snapshot the decider answers true exactly when some
\* frame is named exactly update_train_step_metrics, update_train_epoch_metrics
\* or log_eval_end_metrics (false for the empty stack and for names that only
\* contain one of them), and evaluating it leaves adapter and session untouched.
C1_DeciderExact ==
    decision # <<>> =>
        /\ decision[1] <=> (\E i \in 1..Len(stack) : stack[i] \in Finalizers)
        /\ nLive = 0 /\ calls = <<>> /\ live = NewLive /\ _experiment = "None"
        /\ lastOp.op = "__init__" /\ ~_checkpoint_callback.set

C1_Witness ==
    /\ decision = <<TRUE>>
    /\ stack = <<"main", "update_train_step_metrics", "log_metrics">>

\* C2: on rank zero, log_metrics(metrics, step=s) called under a finalizer frame
\* calls next_step() exactly once and leaves the counter at s+1; called from
\* anywhere else it does not call next_step() and leaves the counter at s.
C2_StepAfterLogMetrics ==
    LoggedMetrics =>
        IF OnStack(lastOp.stack, Finalizers)
        THEN Count(calls, "next_step") = 1 /\ live.step = lastOp.step + 1
        ELSE Count(calls, "next_step") = 0 /\ live.step = lastOp.step

C2_Witness ==
    /\ LoggedMetrics
    /\ OnStack(lastOp.stack, {"update_train_epoch_metrics"})
    /\ lastOp.step = MaxStep
    /\ live.step = MaxStep + 1
    /\ lastOp.metrics # <<>>

\* C3: log_metrics decrements the last-reported step only when a
\* log_eval_end_metrics frame is on the stack; a call that advances because of
\* update_train_step_metrics or update_train_epoch_metrics alone leaves it as it is.
C3_DecrementOnlyOnEvalEnd ==
    (LoggedMetrics /\ Has(calls, "_latest_studio_step"))
        => OnStack(lastOp.stack, {"log_eval_end_metrics"})

\* C4 as stated: finalize under policy "all" with a recorded checkpoint callback
\* makes exactly two log_artifact calls, the checkpoint directory and the best
\* model named "best", and then calls end().
C4_FinalizeAllTwoArtifacts ==
    (rank = 0 /\ lastOp.op = "finalize" /\ _log_model = "all" /\ _checkpoint_callback.set)
        => /\ Len(Artifacts(calls)) = 2
           /\ \E i \in Where(calls, "log_artifact") :
                 calls[i].path = _checkpoint_callback.dirpath
           /\ \E i \in Where(calls, "log_artifact") :
                 calls[i].path = _checkpoint_callback.best_model_path /\ calls[i].tag = "best"
           /\ calls[Len(calls)].op = "end"

\* C4 amended: finalize under policy "all" with a recorded checkpoint callback
\* makes exactly one log_artifact call, the best model path named "best", and
\* calls end() after it; the checkpoint directory is logged by each
\* after_save_checkpoint call, not by finalize.
C4_FinalizeAllBestOnly ==
    /\ (rank = 0 /\ lastOp.op = "finalize" /\ _log_model = "all" /\ _checkpoint_callback.set)
        => /\ Len(Artifacts(calls)) = 1
           /\ Artifacts(calls)[1].path = _checkpoint_callback.best_model_path
           /\ Artifacts(calls)[1].tag = "best"
           /\ Count(calls, "end") = 1
           /\ calls[Len(calls)].op = "end"
    /\ (rank = 0 /\ lastOp.op = "after_save_checkpoint" /\ _log_model = "all")
        => /\ Len(Artifacts(calls)) = 1
           /\ Artifacts(calls)[1].path = _checkpoint_callback.dirpath

C4_Witness ==
    /\ rank = 0 /\ lastOp.op = "finalize" /\ _log_model = "all"
    /\ _checkpoint_callback.set /\ ~lastOp.raised
    /\ Has(calls, "log_artifact")

---------------------------------------------------------------------------
(* Leaves of a parameter mapping, by path.                                 *)

RECURSIVE LeafEntries(_, _)
LeafEntries(d, prefix) ==
    UNION {IF d[k].isDict THEN LeafEntries(d[k].items, Append(prefix, k))
           ELSE {<<Append(prefix, k), d[k].leaf>>} : k \in DOMAIN d}

RECURSIVE DictPaths(_, _)
DictPaths(d, prefix) ==
    UNION {IF d[k].isDict
           THEN {Append(prefix, k)} \cup DictPaths(d[k].items, Append(prefix, k))
           ELSE {} : k \in DOMAIN d}

LastKey(path) == path[Len(path)]
CollisionFree(d) ==
    /\ \A e1, e2 \in LeafEntries(d, <<>>) : LastKey(e1[1]) = LastKey(e2[1]) => e1 = e2
    /\ \A e \in LeafEntries(d, <<>>), q \in DictPaths(d, <<>>) : LastKey(e[1]) # LastKey(q)
Sanitized(leaf) ==
    IF leaf.kind \in {"int", "str"} THEN leaf ELSE [kind |-> "str", n |-> leaf.n]
LoggedParams == lastOp.op = "log_hyperparams" /\ forwarded.kind = "dict"

\* C5 as stated: for a parameter mapping with collision-free leaf keys the
\* mapping handed to log_params is single-level and holds every leaf key of the
\* input with its sanitized value.
C5_ForwardedSingleLevel ==
    (LoggedParams /\ CollisionFree(_convert_params(hparams)))
        => /\ \A k \in DOMAIN forwarded.items : ~forwarded.items[k].isDict
           /\ \A e \in LeafEntries(_convert_params(hparams), <<>>) :
                 /\ LastKey(e[1]) \in DOMAIN forwarded.items
                 /\ forwarded.items[LastKey(e[1])].leaf = Sanitized(e[2])

\* C5 amended: the mapping handed to log_params keeps the nesting of the input:
\* every leaf of the input is present under its own path with its sanitized
\* value, every nested mapping stays a nested mapping under its own key, and
\* nothing else is added.
C5_ForwardedKeepsNesting ==
    LoggedParams
        => /\ LeafEntries(forwarded.items, <<>>)
                = {<<e[1], Sanitized(e[2])>> : e \in LeafEntries(_convert_params(hparams), <<>>)}
           /\ DictPaths(forwarded.items, <<>>) = DictPaths(_convert_params(hparams), <<>>)

C5_Witness ==
    /\ LoggedParams
    /\ hparams = ExampleParams
    /\ forwarded.items["a"].isDict
    /\ forwarded.items["a"].items["b"].leaf.n = 1

---------------------------------------------------------------------------
\* C6: on a process whose rank is not zero no operation constructs a tracking
\* session or reaches one (no log_params, log_metric, next_step, log_artifact,
\* end, step or last-reported-step change), after_save_checkpoint included; on
\* rank zero the same operations do reach the session.
C6_OnlyRankZeroLogs ==
    /\ rank # 0 =>
          /\ nLive = 0 /\ calls = <<>> /\ live = NewLive
          /\ forwarded = NoParams /\ _experiment # "created"
          /\ groupStep = -1
    /\ rank = 0 =>
          /\ lastOp.op = "log_metrics" => Has(calls, "step")
          /\ lastOp.op = "log_hyperparams" => Has(calls, "log_params")
          /\ (lastOp.op = "after_save_checkpoint" /\ _log_model = "all")
                => Has(calls, "log_artifact")
          /\ (lastOp.op = "finalize" /\ ~lastOp.raised) => Has(calls, "end")

C6_Witness ==
    /\ rank # 0
    /\ lastOp.op = "after_save_checkpoint"
    /\ _log_model = "all"
    /\ _checkpoint_callback.set
    /\ _experiment = "supplied"
    /\ report = "notebook"

\* C7 as stated: every finalize call on rank zero invokes end() exactly once,
\* for every model-logging policy and whether or not after_save_checkpoint was
\* called before.
C7_EveryFinalizeEnds ==
    (rank = 0 /\ lastOp.op = "finalize") => Count(calls, "end") = 1

\* C7 amended: on rank zero the session is created on first access (in the
\* constructor only for report = "notebook"), at most one Live is constructed
\* and none when an experiment was supplied, and every finalize call that
\* returns invokes end() exactly once, as its last call; finalize raises before
\* end() exactly when the policy is True or "all" and no checkpoint callback
\* was recorded.
C7_SessionLifetime ==
    /\ nLive <= 1
    /\ nLive = 1 <=> _experiment = "created"
    /\ (lastOp.op = "__init__" /\ nLive = 1) => (report = "notebook" /\ rank = 0)
    /\ (lastOp.op = "__init__" /\ report = "notebook" /\ rank = 0) => _experiment # "None"
    /\ Has(calls, "Live") => (calls[1].op = "Live" /\ Count(calls, "Live") = 1)
    /\ (rank = 0 /\ lastOp.op \in {"log_metrics", "log_hyperparams"}) => _experiment # "None"
    /\ (rank = 0 /\ lastOp.op = "finalize") =>
          /\ lastOp.raised <=> (_log_model \in {"True", "all"} /\ ~_checkpoint_callback.set)
          /\ lastOp.raised => Count(calls, "end") = 0
          /\ ~lastOp.raised =>
                (Count(calls, "end") = 1 /\ calls[Len(calls)].op = "end")

C7_Witness ==
    /\ rank = 0 /\ lastOp.op = "finalize" /\ ~lastOp.raised
    /\ _log_model = "True"
    /\ Has(calls, "Live")
    /\ Count(calls, "end") = 1

---------------------------------------------------------------------------
Decrement == "_latest_studio_step"
Only(cs, op) == CHOOSE i \in Where(cs, op) : TRUE

\* C8: when log_metrics(metrics, step=s) runs on the evaluation-end path and the
\* session's last-reported step equals s, the adapter lowers it by exactly one,
\* after every metric of the call was forwarded and before next_step(), which is
\* then called exactly once; when the last-reported step differs from s the
\* adapter does not modify it.
C8_DuplicateStepSuppression ==
    [][(rank = 0 /\ lastOp'.op = "log_metrics") =>
          /\ (OnStack(lastOp'.stack, {"log_eval_end_metrics"})
              /\ live._latest_studio_step = lastOp'.step) =>
                /\ Count(calls', Decrement) = 1
                /\ calls'[Only(calls', Decrement)].n = live._latest_studio_step - 1
                /\ Count(calls', "log_metric") = Len(lastOp'.metrics)
                /\ \A i \in Where(calls', "log_metric") : i < Only(calls', Decrement)
                /\ Count(calls', "next_step") = 1
                /\ Only(calls', Decrement) < Only(calls', "next_step")
          /\ live._latest_studio_step # lastOp'.step => Count(calls', Decrement) = 0
      ]_vars

C8_Witness ==
    /\ LoggedMetrics
    /\ OnStack(lastOp.stack, {"log_eval_end_metrics"})
    /\ Count(calls, Decrement) = 1
    /\ Count(calls, "log_metric") = 2
    /\ Only(calls, Decrement) < Only(calls, "next_step")

\* C9 as stated: the session's step counter never decreases, whatever step
\* arguments log_metrics is given.
C9_StepMonotonic ==
    [][live'.step >= live.step]_vars

\* C9 amended: the counter does not decrease across log_hyperparams,
\* after_save_checkpoint, finalize, or a log_metrics call whose step argument
\* is at least the current counter; a log_metrics call always leaves the
\* counter at its step argument, or one above it when it advances.
C9_StepMonotonicFromCurrent ==
    [][/\ (lastOp'.op = "log_metrics" /\ lastOp'.step < live.step)
          \/ live'.step >= live.step
       /\ (rank = 0 /\ lastOp'.op = "log_metrics")
          => live'.step \in {lastOp'.step, lastOp'.step + 1}
      ]_vars

C9_Witness ==
    /\ LoggedMetrics
    /\ lastOp.step = MaxStep
    /\ live.step = MaxStep + 1
    /\ live._latest_studio_step = MaxStep

\* C10 as stated: every metric is recorded under the counter in force during
\* its call, and metrics of two log_metrics calls with no step advance between
\* them are recorded under the same step whatever step arguments they carry.
C10_SameStepGrouping ==
    [][\A i \in Where(calls', "log_metric") :
          groupStep # -1 => calls'[i].n = groupStep
      ]_vars

\* C10 amended: every metric forwarded by a log_metrics call is recorded under
\* that call's step argument, so metrics of two calls with no step advance
\* between them share a step number when the calls carry the same step
\* argument (and only then).
C10_GroupingByStepArgument ==
    [][\A i \in Where(calls', "log_metric") :
          /\ lastOp'.op = "log_metrics"
          /\ calls'[i].n = lastOp'.step
          /\ groupStep # -1 => (calls'[i].n = groupStep <=> lastOp'.step = groupArg)
      ]_vars

C10_Witness ==
    /\ LoggedMetrics
    /\ lastOp.metrics # <<>>
    /\ ~OnStack(lastOp.stack, Finalizers)
    /\ groupStep = lastOp.step
    /\ groupArg = lastOp.step
    /\ lastOp.step > 0

====
